---- MODULE Spec2Model ----
(***************************************************************************)
(* baseline-a2c/wrappers.py: the subprocess vectorized environment.        *)
(*                                                                         *)
(* SubprocVecEnv (the coordinator) owns N pipes and N processes; each      *)
(* process runs worker(remote, env_fn_wrapper), a blocking command loop    *)
(* around one environment.  The coordinator's position is (call, pc, idx); *)
(* every send and every recv of the coordinator is one action, and every   *)
(* branch of the worker loop (recv, the environment calls, send) is one    *)
(* action.  Pipes are FIFO queues that never fill up.                      *)
(*                                                                         *)
(* Spec       the N-worker executor driven by a caller.                    *)
(* FairSpec   Spec plus the scheduling of the processes (liveness).        *)
(* WorkerSpec worker() alone, driven through its pipe by a direct client   *)
(*            that may queue any command, also an unrecognized one.        *)
(*                                                                         *)
(* The Atari wrappers of the same file are objects around an inner         *)
(* environment; one step() or reset() on a wrapper is one action,          *)
(* computed from the answers of the inner environment, which are free.     *)
(*                                                                         *)
(* LifeSpec      EpisodicLifeEnv under any sequence of step and reset.     *)
(* LifeLoopSpec  EpisodicLifeEnv as the env of the worker loop.            *)
(* MaxSkipSpec   MaxAndSkipEnv(skip=4).                                    *)
(* StackSpec     FrameStack(k=4).                                          *)
(* FrameSkipSpec FrameSkipping(n_aux_acts=NAux).                           *)
(* FireSpec      FireResetEnv.                                             *)
(***************************************************************************)
EXTENDS Integers, Sequences, FiniteSets, TLC

\* ---------------------------------------------------------------- bounds
N == 2          \* len(env_fns): number of workers
MaxCalls == 2   \* step/reset/get_last_reward calls the caller makes
MaxFairCalls == 1   \* the same, in the behaviours checked for liveness
MaxCmds == 3    \* commands the direct client sends in WorkerSpec

W == 0 .. (N - 1)
Actions == {0, 1}                 \* the action values a caller passes
Shapes == {"84x84", "42x42"}      \* observation shapes an env_fn may give
KnownCmds == {"step", "reset", "close", "get_spaces", "last_reward"}
ClientCmds == KnownCmds \cup {"bogus"}

VARIABLES
  call,      \* the SubprocVecEnv method the coordinator is executing
  pc,        \* its position in that method
  idx,       \* the index of the for loop / comprehension it is in
  actions,   \* the argument of the current step call
  results,   \* the list the recv comprehension has built so far
  ret,       \* the value the last finished call returned to the caller
  cerr,      \* the exception the last finished call raised to the caller
  spaces,    \* self.action_space, self.observation_space
  c2w,       \* per worker: commands sent on remote, not yet received
  w2c,       \* per worker: results sent on work_remote, not yet received
  wpc,       \* per worker: position of the process
  werr,      \* per worker: the exception that ended the process
  env,       \* per worker: the state of its environment
  pending,   \* per worker: commands sent minus results received (history)
  trace,     \* sends and receives of the current call, in order (history)
  ncalls,    \* number of calls made by the caller so far
  sentLog,   \* WorkerSpec: the commands the client has sent, in order
  gotLog,    \* WorkerSpec: the results the client has received, in order
  wst,       \* wrapper specifications: the fields of the gym.Wrapper object
  inner,     \* wrapper specifications: the state of self.env
  ilog,      \* the operations the last wrapper call applied to self.env
  wret,      \* what the last wrapper call returned or raised
  wn         \* number of wrapper calls made so far

vars == <<call, pc, idx, actions, results, ret, cerr, spaces, c2w, w2c,
          wpc, werr, env, pending, trace, ncalls, sentLog, gotLog,
          wst, inner, ilog, wret, wn>>

coordVars == <<call, pc, idx, actions, results, ret, cerr, spaces, ncalls>>
clientVars == <<sentLog, gotLog>>
wrapVars == <<wst, inner, ilog, wret, wn>>

\* ----------------------------------------------------------- environment
\* An environment is identified by its episode number and the step within
\* the episode; what it returns is a function of that state, so that two
\* observations are equal only if they come from the same worker, episode
\* and step.
NoEnv == [ep |-> 0, t |-> 0, shape |-> "none"]

NewEnv(s) == [ep |-> 0, t |-> 0, shape |-> s]

EnvStep(e) == [e EXCEPT !.t = e.t + 1]

EnvReset(e) == [e EXCEPT !.ep = e.ep + 1, !.t = 0]

Obs(k, e) == [src |-> k, ep |-> e.ep, t |-> e.t, shape |-> e.shape]

Reward(k, a) == 10 * k + a

Info(k, e, a) == [src |-> k, act |-> a, ep |-> e.ep, t |-> e.t]

EnvSpaces(k, e) == [src |-> k, shape |-> e.shape]

LastReward(k, e) == [src |-> k, ep |-> e.ep, t |-> e.t]

\* ---------------------------------------------------------------- worker
\* a process is over once worker() has returned or has raised
Terminated == {"exited", "raised"}

\* line 24: env = env_fn_wrapper.x(); the constructor may raise.
WorkerBoot(k) ==
  /\ wpc[k] = "boot"
  /\ \/ \E s \in Shapes :
          /\ env' = [env EXCEPT ![k] = NewEnv(s)]
          /\ wpc' = [wpc EXCEPT ![k] = "loop"]
          /\ UNCHANGED werr
     \/ /\ wpc' = [wpc EXCEPT ![k] = "raised"]
        /\ werr' = [werr EXCEPT ![k] = "EnvCtorError"]
        /\ UNCHANGED env
  /\ UNCHANGED <<coordVars, clientVars, wrapVars, c2w, w2c, pending, trace>>

\* lines 27-44: the if/elif chain on cmd; a command that matches no branch
\* reaches the else.
Branch_else_replies(cmd) == IF cmd \in KnownCmds THEN cmd ELSE "get_spaces"

Branch(cmd) == IF cmd \in KnownCmds THEN cmd ELSE "else"

Ready(k, b) ==
  /\ wpc[k] = "loop"
  /\ c2w[k] # <<>>
  /\ Branch(Head(c2w[k]).cmd) = b

Raise(k, e) ==
  /\ wpc' = [wpc EXCEPT ![k] = "raised"]
  /\ werr' = [werr EXCEPT ![k] = e]

\* lines 29-30: if done: ob = env.reset()
ResetIfDone_never(done, e) == e

ResetIfDone(done, e) == IF done THEN EnvReset(e) ELSE e

\* lines 28-31
StepReply(k, e, a, done) ==
  LET e1 == EnvStep(e)
      e2 == ResetIfDone(done, e1)
  IN  [env |-> e2,
       msg |-> [kind |-> "step", ob |-> Obs(k, e2), rew |-> Reward(k, a),
                done |-> done, info |-> Info(k, e1, a)]]

WorkerStep(k) ==
  /\ Ready(k, "step")
  /\ c2w' = [c2w EXCEPT ![k] = Tail(@)]
  /\ \/ \E done \in BOOLEAN :
          LET r == StepReply(k, env[k], Head(c2w[k]).data, done)
          IN  /\ env' = [env EXCEPT ![k] = r.env]
              /\ w2c' = [w2c EXCEPT ![k] = Append(@, r.msg)]
              /\ UNCHANGED <<wpc, werr>>
     \/ /\ Raise(k, "EnvError")
        /\ UNCHANGED <<env, w2c>>
  /\ UNCHANGED <<coordVars, clientVars, wrapVars, pending, trace>>

\* lines 32-34
WorkerReset(k) ==
  /\ Ready(k, "reset")
  /\ c2w' = [c2w EXCEPT ![k] = Tail(@)]
  /\ \/ LET e1 == EnvReset(env[k])
        IN  /\ env' = [env EXCEPT ![k] = e1]
            /\ w2c' = [w2c EXCEPT ![k] =
                         Append(@, [kind |-> "reset", ob |-> Obs(k, e1)])]
            /\ UNCHANGED <<wpc, werr>>
     \/ /\ Raise(k, "EnvError")
        /\ UNCHANGED <<env, w2c>>
  /\ UNCHANGED <<coordVars, clientVars, wrapVars, pending, trace>>

\* lines 35-37: remote.close(); break
AfterClose_stays == "loop"

AfterClose == "exited"

WorkerClose(k) ==
  /\ Ready(k, "close")
  /\ c2w' = [c2w EXCEPT ![k] = Tail(@)]
  /\ wpc' = [wpc EXCEPT ![k] = AfterClose]
  /\ UNCHANGED <<coordVars, clientVars, wrapVars, w2c, werr, env, pending, trace>>

\* lines 38-39: the messages the get_spaces branch sends
SpacesReplies_none(k, e) == <<>>

SpacesReplies(k, e) == <<[kind |-> "spaces", val |-> EnvSpaces(k, e)]>>

WorkerGetSpaces(k) ==
  /\ Ready(k, "get_spaces")
  /\ c2w' = [c2w EXCEPT ![k] = Tail(@)]
  /\ w2c' = [w2c EXCEPT ![k] = @ \o SpacesReplies(k, env[k])]
  /\ UNCHANGED <<coordVars, clientVars, wrapVars, wpc, werr, env, pending, trace>>

\* lines 40-42: the metadata of the environment may lack 'last_reward'
WorkerLastReward(k) ==
  /\ Ready(k, "last_reward")
  /\ c2w' = [c2w EXCEPT ![k] = Tail(@)]
  /\ \/ /\ w2c' = [w2c EXCEPT ![k] =
                     Append(@, [kind |-> "last_reward",
                                val |-> LastReward(k, env[k])])]
        /\ UNCHANGED <<wpc, werr>>
     \/ /\ Raise(k, "KeyError")
        /\ UNCHANGED w2c
  /\ UNCHANGED <<coordVars, clientVars, wrapVars, env, pending, trace>>

\* lines 43-44: raise NotImplementedError
WorkerElse(k) ==
  /\ Ready(k, "else")
  /\ c2w' = [c2w EXCEPT ![k] = Tail(@)]
  /\ Raise(k, "NotImplementedError")
  /\ UNCHANGED <<coordVars, clientVars, wrapVars, w2c, env, pending, trace>>

Worker(k) ==
  \/ WorkerBoot(k)
  \/ WorkerStep(k)
  \/ WorkerReset(k)
  \/ WorkerClose(k)
  \/ WorkerGetSpaces(k)
  \/ WorkerLastReward(k)

\* ----------------------------------------------------------- coordinator
\* remote.send(m) on self.remotes[k]
Send(k, m) ==
  /\ c2w' = [c2w EXCEPT ![k] = Append(@, m)]
  /\ pending' = [pending EXCEPT ![k] = @ + 1]
  /\ trace' = Append(trace, <<"send", k>>)

\* remote.recv() on self.remotes[k], appended to the list being built;
\* blocks while the pipe is empty, whatever the state of the process at the
\* other end (the coordinator keeps its own copy of work_remote open, so a
\* dead worker never shows as end-of-file).
Recv(k) ==
  /\ w2c[k] # <<>>
  /\ results' = Append(results, Head(w2c[k]))
  /\ w2c' = [w2c EXCEPT ![k] = Tail(@)]
  /\ pending' = [pending EXCEPT ![k] = @ - 1]
  /\ trace' = Append(trace, <<"recv", k>>)

\* the for loops of lines 76-77, 83-84, 88-89 and 94-95: after the send to
\* remote i of n, the next position
SendLoopNext_one(i, n) ==
  IF i < 0 /\ n > 0 THEN [pc |-> "send", idx |-> 0]
                    ELSE [pc |-> "recv", idx |-> 0]

SendLoopNext(i, n) ==
  IF i + 1 < n THEN [pc |-> "send", idx |-> i + 1]
               ELSE [pc |-> "recv", idx |-> 0]

\* the comprehensions of lines 78, 85 and 96: after the recv that fills
\* slot i, the next position
RecvLoopNext_first(i) == [pc |-> "ret", idx |-> 0]

RecvLoopNext(i) ==
  IF i + 1 < N THEN [pc |-> "recv", idx |-> i + 1]
               ELSE [pc |-> "ret", idx |-> 0]

\* `for remote in self.remotes`: the remote read to fill slot i
RecvFrom_reversed(i) == N - 1 - i

RecvFrom(i) == i

\* zip(self.remotes, actions) stops at the shorter of the two
ZipLen_short(acts) == IF Len(acts) < N THEN Len(acts) ELSE N - 1

ZipLen(acts) == IF Len(acts) < N THEN Len(acts) ELSE N

\* np.stack: all arrays must have the same shape
Stackable_always(obs) == TRUE

Stackable(obs) == \A a, b \in 1 .. Len(obs) : obs[a].shape = obs[b].shape

Goto(p) ==
  /\ pc' = p.pc
  /\ idx' = p.idx

\* lines 68-69: for p in self.ps: p.start(); the start of a process may
\* fail, and the exception leaves __init__ as it is.
CtorStart ==
  /\ call = "ctor" /\ pc = "start"
  /\ \/ /\ wpc' = [wpc EXCEPT ![idx] = "boot"]
        /\ IF idx + 1 < N THEN UNCHANGED pc /\ idx' = idx + 1
                          ELSE pc' = "send" /\ idx' = 0
        /\ UNCHANGED cerr
     \/ /\ pc' = "failed"
        /\ cerr' = "OSError"
        /\ UNCHANGED <<wpc, idx>>
  /\ UNCHANGED <<call, actions, results, ret, spaces, ncalls, clientVars, wrapVars,
                 c2w, w2c, werr, env, pending, trace>>

\* line 71
CtorSend ==
  /\ call = "ctor" /\ pc = "send"
  /\ Send(0, [cmd |-> "get_spaces", data |-> "None"])
  /\ pc' = "recv"
  /\ UNCHANGED <<call, idx, actions, results, ret, cerr, spaces, ncalls,
                 clientVars, wrapVars, w2c, wpc, werr, env>>

\* line 72; __init__ returns
CtorRecv ==
  /\ call = "ctor" /\ pc = "recv"
  /\ Recv(0)
  /\ spaces' = Head(w2c[0]).val
  /\ call' = "none" /\ pc' = "idle"
  /\ UNCHANGED <<idx, actions, ret, cerr, ncalls, clientVars, wrapVars, c2w, wpc,
                 werr, env>>

\* nothing returned (yet)
NoValue == [kind |-> "none"]

\* the caller enters a method of a constructed executor
Enter(c, acts, p) ==
  /\ call = "none" /\ pc = "idle"
  /\ call' = c
  /\ actions' = acts
  /\ Goto(p)
  /\ results' = <<>>
  /\ ret' = NoValue
  /\ cerr' = "none"
  /\ trace' = <<>>
  /\ UNCHANGED <<spaces, clientVars, wrapVars, c2w, w2c, wpc, werr, env, pending>>

\* the method returns v
Return(v) ==
  /\ call' = "none" /\ pc' = "idle"
  /\ ret' = v
  /\ UNCHANGED <<idx, actions, results, cerr, spaces, ncalls, clientVars, wrapVars,
                 c2w, w2c, wpc, werr, env, pending, trace>>

\* the method raises e to the caller
RaiseToCaller(e) ==
  /\ call' = "none" /\ pc' = "idle"
  /\ cerr' = e
  /\ UNCHANGED <<idx, actions, results, ret, spaces, ncalls, clientVars, wrapVars,
                 c2w, w2c, wpc, werr, env, pending, trace>>

SendStep(m, n) ==
  /\ pc = "send"
  /\ Send(idx, m)
  /\ Goto(SendLoopNext(idx, n))
  /\ UNCHANGED <<call, actions, results, ret, cerr, spaces, ncalls,
                 clientVars, wrapVars, w2c, wpc, werr, env>>

RecvStep ==
  /\ pc = "recv"
  /\ Recv(RecvFrom(idx))
  /\ Goto(RecvLoopNext(idx))
  /\ UNCHANGED <<call, actions, ret, cerr, spaces, ncalls, clientVars, wrapVars,
                 c2w, wpc, werr, env>>

ActionBatches == UNION {[1 .. m -> Actions] : m \in 0 .. N}

\* lines 75-80
CallStep ==
  /\ ncalls < MaxCalls
  /\ ncalls' = ncalls + 1
  /\ \E acts \in ActionBatches :
       Enter("step", acts, SendLoopNext(-1, ZipLen(acts)))

StepSend ==
  /\ call = "step"
  /\ SendStep([cmd |-> "step", data |-> actions[idx + 1]], ZipLen(actions))

StepRecv ==
  /\ call = "step"
  /\ RecvStep

StepReturn ==
  /\ call = "step" /\ pc = "ret"
  /\ LET n == 1 .. Len(results)
         obs == [j \in n |-> results[j].ob]
     IN  IF Stackable(obs)
         THEN Return([kind |-> "step",
                      obs |-> obs,
                      rews |-> [j \in n |-> results[j].rew],
                      dones |-> [j \in n |-> results[j].done],
                      infos |-> [j \in n |-> results[j].info]])
         ELSE RaiseToCaller("ValueError")

\* lines 82-85
CallReset ==
  /\ ncalls < MaxCalls
  /\ ncalls' = ncalls + 1
  /\ Enter("reset", <<>>, SendLoopNext(-1, N))

ResetSend ==
  /\ call = "reset"
  /\ SendStep([cmd |-> "reset", data |-> "None"], N)

ResetRecv ==
  /\ call = "reset"
  /\ RecvStep

ResetReturn ==
  /\ call = "reset" /\ pc = "ret"
  /\ LET obs == [j \in 1 .. Len(results) |-> results[j].ob]
     IN  IF Stackable(obs)
         THEN Return([kind |-> "reset", obs |-> obs])
         ELSE RaiseToCaller("ValueError")

\* lines 93-96
CallLastReward ==
  /\ ncalls < MaxCalls
  /\ ncalls' = ncalls + 1
  /\ Enter("last_reward", <<>>, SendLoopNext(-1, N))

LastRewardSend ==
  /\ call = "last_reward"
  /\ SendStep([cmd |-> "last_reward", data |-> "None"], N)

LastRewardRecv ==
  /\ call = "last_reward"
  /\ RecvStep

LastRewardReturn ==
  /\ call = "last_reward" /\ pc = "ret"
  /\ Return([kind |-> "last_reward",
             vals |-> [j \in 1 .. Len(results) |-> results[j].val]])

\* lines 87-91
CallClose ==
  /\ Enter("close", <<>>, SendLoopNext(-1, N))
  /\ UNCHANGED ncalls

\* lines 88-89; the join loop follows the send loop
CloseSend ==
  /\ call = "close" /\ pc = "send"
  /\ Send(idx, [cmd |-> "close", data |-> "None"])
  /\ IF SendLoopNext(idx, N).pc = "send"
       THEN Goto(SendLoopNext(idx, N))
       ELSE pc' = "join" /\ idx' = 0
  /\ UNCHANGED <<call, actions, results, ret, cerr, spaces, ncalls,
                 clientVars, wrapVars, w2c, wpc, werr, env>>

\* lines 90-91: p.join() returns once process p has terminated
Joinable_any(k) == TRUE

Joinable(k) == wpc[k] \in Terminated

CloseJoin ==
  /\ call = "close" /\ pc = "join"
  /\ Joinable(idx)
  /\ IF idx + 1 < N THEN UNCHANGED pc /\ idx' = idx + 1
                    ELSE pc' = "closed" /\ idx' = 0
  /\ UNCHANGED <<call, actions, results, ret, cerr, spaces, ncalls,
                 clientVars, wrapVars, c2w, w2c, wpc, werr, env, pending, trace>>

\* the caller's decisions
Caller == CallStep \/ CallReset \/ CallLastReward \/ CallClose

\* the coordinator's own progress inside __init__ or a method
Coordinator ==
  \/ CtorStart \/ CtorSend \/ CtorRecv
  \/ StepSend \/ StepRecv \/ StepReturn
  \/ ResetSend \/ ResetRecv \/ ResetReturn
  \/ LastRewardSend \/ LastRewardRecv \/ LastRewardReturn
  \/ CloseSend \/ CloseJoin

\* no wrapper object is under test in the executor specifications
NoWrapper ==
  /\ wst = NoValue
  /\ inner = NoValue
  /\ ilog = <<>>
  /\ wret = NoValue
  /\ wn = 0

Init ==
  /\ call = "ctor" /\ pc = "start" /\ idx = 0
  /\ actions = <<>> /\ results = <<>> /\ ret = NoValue
  /\ cerr = "none"
  /\ spaces = [src |-> -1, shape |-> "none"]
  /\ c2w = [k \in W |-> <<>>]
  /\ w2c = [k \in W |-> <<>>]
  /\ wpc = [k \in W |-> "unstarted"]
  /\ werr = [k \in W |-> "none"]
  /\ env = [k \in W |-> NoEnv]
  /\ pending = [k \in W |-> 0]
  /\ trace = <<>>
  /\ ncalls = 0
  /\ sentLog = <<>>
  /\ gotLog = <<>>
  /\ NoWrapper

Next ==
  \/ CtorStart \/ CtorSend \/ CtorRecv
  \/ CallStep \/ StepSend \/ StepRecv \/ StepReturn
  \/ CallReset \/ ResetSend \/ ResetRecv \/ ResetReturn
  \/ CallLastReward \/ LastRewardSend \/ LastRewardRecv \/ LastRewardReturn
  \/ CallClose \/ CloseSend \/ CloseJoin
  \/ \E k \in W : WorkerBoot(k)
  \/ \E k \in W : WorkerStep(k)
  \/ \E k \in W : WorkerReset(k)
  \/ \E k \in W : WorkerClose(k)
  \/ \E k \in W : WorkerGetSpaces(k)
  \/ \E k \in W : WorkerLastReward(k)

Spec == Init /\ [][Next]_vars

\* Every process is scheduled: a coordinator that can take its next step
\* inside __init__ or a method takes it, and so does every worker.  The
\* caller is under no obligation to make another call.  Liveness is checked
\* on the behaviours with at most MaxFairCalls calls before close.
FairCaller == Caller /\ ncalls' <= MaxFairCalls

FairNext ==
  \/ FairCaller
  \/ Coordinator
  \/ \E k \in W : Worker(k)

FairSpec ==
  /\ Init
  /\ [][FairNext]_vars
  /\ WF_vars(Coordinator)
  /\ \A k \in W : WF_vars(Worker(k))

\* ------------------------------------------------- worker() on its own
\* A client holding the other end of the pipe of worker 0 sends it commands
\* without waiting for the replies, and reads the replies in its own time.
WorkerInit ==
  /\ call = "client" /\ pc = "client" /\ idx = 0
  /\ actions = <<>> /\ results = <<>> /\ ret = NoValue
  /\ cerr = "none"
  /\ spaces = [src |-> -1, shape |-> "none"]
  /\ c2w = [k \in W |-> <<>>]
  /\ w2c = [k \in W |-> <<>>]
  /\ wpc = [k \in W |-> IF k = 0 THEN "boot" ELSE "unstarted"]
  /\ werr = [k \in W |-> "none"]
  /\ env = [k \in W |-> NoEnv]
  /\ pending = [k \in W |-> 0]
  /\ trace = <<>>
  /\ ncalls = 0
  /\ sentLog = <<>>
  /\ gotLog = <<>>
  /\ NoWrapper

ClientSend ==
  /\ pc = "client"
  /\ Len(sentLog) < MaxCmds
  /\ \E c \in ClientCmds :
       \E d \in IF c = "step" THEN Actions ELSE {"None"} :
         LET m == [cmd |-> c, data |-> d]
         IN  /\ c2w' = [c2w EXCEPT ![0] = Append(@, m)]
             /\ sentLog' = Append(sentLog, m)
  /\ pending' = [pending EXCEPT ![0] = @ + 1]
  /\ UNCHANGED <<coordVars, wrapVars, gotLog, w2c, wpc, werr, env, trace>>

ClientRecv ==
  /\ pc = "client"
  /\ w2c[0] # <<>>
  /\ gotLog' = Append(gotLog, Head(w2c[0]))
  /\ w2c' = [w2c EXCEPT ![0] = Tail(@)]
  /\ pending' = [pending EXCEPT ![0] = @ - 1]
  /\ UNCHANGED <<coordVars, wrapVars, sentLog, c2w, wpc, werr, env, trace>>

WorkerNext ==
  \/ ClientSend
  \/ ClientRecv
  \/ WorkerBoot(0)
  \/ WorkerStep(0)
  \/ WorkerReset(0)
  \/ WorkerClose(0)
  \/ WorkerGetSpaces(0)
  \/ WorkerLastReward(0)
  \/ WorkerElse(0)

WorkerSpec == WorkerInit /\ [][WorkerNext]_vars

\* ------------------------------------------------------------- wrappers
\* A gym.Wrapper is an object around an inner environment self.env.  One
\* call of step() or reset() on the wrapper is one action; what the inner
\* environment answers to each operation applied to it is drawn from the
\* sets below, and the call is computed from those answers as the method
\* computes it.  The executor is not running in these specifications.
MaxOps == 3     \* step()/reset() calls made on the wrapper under test
NAux == 2       \* n_aux_acts (num_skips) given to FrameSkipping

Frames == {<<0, 1>>, <<1, 0>>}    \* raw observations, two pixels each
Rewards == {1, 2}                 \* rewards of one inner step
Lives == 0 .. 3                   \* values of ale.lives()

\* the answers of an inner step() and of an inner reset()
StepOuts(L) == [ob : Frames, rew : Rewards, done : BOOLEAN, lives : L]

ResetOuts(L) == [ob : Frames, lives : L]

\* the record of one operation applied to the inner environment
StepOp(a, o) ==
  [op |-> "step", a |-> a, ob |-> o.ob, rew |-> o.rew, done |-> o.done,
   lives |-> o.lives]

ResetOp(o) ==
  [op |-> "reset", a |-> 0, ob |-> o.ob, rew |-> 0, done |-> FALSE,
   lives |-> o.lives]

\* The inner environment: over says that the last operation applied to it
\* was a step that reported done, stale that it has been stepped while over,
\* ended that the last step applied to it reported done or that it has not
\* been stepped yet.
FreshEnv == [over |-> FALSE, lives |-> 0, stale |-> FALSE, ended |-> TRUE]

ApplyOp(e, o) ==
  IF o.op = "reset"
  THEN [over |-> FALSE, lives |-> o.lives, stale |-> e.stale,
        ended |-> e.ended]
  ELSE [over |-> o.done, lives |-> o.lives, stale |-> e.stale \/ e.over,
        ended |-> o.done]

RECURSIVE EnvAfter(_, _)
EnvAfter(e, ops) ==
  IF ops = <<>> THEN e ELSE EnvAfter(ApplyOp(e, Head(ops)), Tail(ops))

\* what a wrapper call gives back to its caller
StepRet(a, ob, rew, done) ==
  [call |-> "step", a |-> a, ob |-> ob, rew |-> rew, done |-> done,
   err |-> "none"]

ResetRet(ob) ==
  [call |-> "reset", a |-> 0, ob |-> ob, rew |-> 0, done |-> FALSE,
   err |-> "none"]

\* the call raised e to its caller
Raised(e) ==
  [call |-> "raise", a |-> 0, ob |-> <<>>, rew |-> 0, done |-> FALSE,
   err |-> e]

\* no call has been made yet
NoRet ==
  [call |-> "none", a |-> 0, ob |-> <<>>, rew |-> 0, done |-> FALSE,
   err |-> "none"]

execVars == <<coordVars, clientVars, c2w, w2c, wpc, werr, env, pending, trace>>

\* the executor, constructed by nobody
NoExecutor ==
  /\ call = "none" /\ pc = "none" /\ idx = 0
  /\ actions = <<>> /\ results = <<>> /\ ret = NoValue
  /\ cerr = "none"
  /\ spaces = [src |-> -1, shape |-> "none"]
  /\ c2w = [k \in W |-> <<>>]
  /\ w2c = [k \in W |-> <<>>]
  /\ wpc = [k \in W |-> "unstarted"]
  /\ werr = [k \in W |-> "none"]
  /\ env = [k \in W |-> NoEnv]
  /\ pending = [k \in W |-> 0]
  /\ trace = <<>>
  /\ ncalls = 0
  /\ sentLog = <<>>
  /\ gotLog = <<>>

\* a wrapper object w constructed around a fresh inner environment
Wrapped(w) ==
  /\ NoExecutor
  /\ wst = w
  /\ inner = FreshEnv
  /\ ilog = <<>>
  /\ wret = NoRet
  /\ wn = 0

\* a call that computed r = [w, ret, ops] has been made on the wrapper
Commit(r) ==
  /\ wst' = r.w
  /\ wret' = r.ret
  /\ ilog' = r.ops
  /\ inner' = EnvAfter(inner, r.ops)
  /\ wn' = wn + 1
  /\ UNCHANGED execVars

\* ---- EpisodicLifeEnv (lines 152-186)
\* lines 158-159
NewLife == [lives |-> 0, was_real_done |-> TRUE]

\* line 167: if lives < self.lives and lives > 0
LostLife_any(w, o) == o.lives < w.lives

LostLife(w, o) == o.lives < w.lives /\ o.lives > 0

\* lines 161-173
LifeStep(w, a, o) ==
  [w   |-> [lives |-> o.lives, was_real_done |-> o.done],
   ret |-> StepRet(a, o.ob, o.rew, o.done \/ LostLife(w, o)),
   ops |-> <<StepOp(a, o)>>]

\* line 181: obs = self.env.reset()
LifeResetFull(w, o) ==
  [w   |-> [w EXCEPT !.lives = o.lives],
   ret |-> ResetRet(o.ob),
   ops |-> <<ResetOp(o)>>]

\* line 184: obs, _, _, _ = self.env.step(0)
LifeResetNoop(w, o) ==
  [w   |-> [w EXCEPT !.lives = o.lives],
   ret |-> ResetRet(o.ob),
   ops |-> <<StepOp(0, o)>>]

LifeStepCall ==
  /\ wn < MaxOps
  /\ \E a \in Actions : \E o \in StepOuts(Lives) : Commit(LifeStep(wst, a, o))

\* line 180: if self.was_real_done
NeedsReset(w) == w.was_real_done

\* lines 175-186: what reset() may come to, over the answers of self.env
LifeResets(w) ==
  IF NeedsReset(w)
  THEN {LifeResetFull(w, o) : o \in ResetOuts(Lives)}
  ELSE {LifeResetNoop(w, o) : o \in StepOuts(Lives)}

LifeResetCall ==
  /\ wn < MaxOps
  /\ \E r \in LifeResets(wst) : Commit(r)

LifeInit == Wrapped(NewLife)

LifeNext == LifeStepCall \/ LifeResetCall

LifeSpec == LifeInit /\ [][LifeNext]_vars

\* ---- MaxAndSkipEnv (lines 188-215)
Skip == 4       \* line 298: MaxAndSkipEnv(env, skip=4)

\* The inner environment of this specification pays 1 with the frame <<0, 1>>
\* and 2 with the frame <<1, 0>>, and may end the episode at any step.
SkipOuts == {o \in StepOuts({0}) : o.rew = o.ob[1] + 1}

\* The answers, out of O, of an inner environment to n consecutive steps.  What it
\* would answer after a step that reported done is of no interest to a loop
\* that stops there: the script repeats that answer.
RECURSIVE Scripts(_, _)
Scripts(O, n) ==
  IF n = 0
  THEN {<<>>}
  ELSE UNION {{<<o>> \o t : t \in IF o.done
                                   THEN {[i \in 1 .. (n - 1) |-> o]}
                                   ELSE Scripts(O, n - 1)} :
              o \in O}

\* line 193: deque(maxlen=2); append drops the oldest of a full buffer
Push(buf, ob) == IF Len(buf) < 2 THEN Append(buf, ob) ELSE Append(Tail(buf), ob)

\* lines 204-205: if done: break
Break_never(done) == FALSE

Break(done) == done

\* lines 198-205: the loop, from its i-th iteration on
RECURSIVE SkipLoop(_, _, _, _)
SkipLoop(acc, a, script, i) ==
  IF i > Skip
  THEN acc
  ELSE LET o == script[i]
           nxt == [buf   |-> Push(acc.buf, o.ob),
                   total |-> acc.total + o.rew,
                   done  |-> o.done,
                   ops   |-> Append(acc.ops, StepOp(a, o))]
       IN  IF Break(o.done) THEN nxt ELSE SkipLoop(nxt, a, script, i + 1)

\* line 206: np.max(np.stack(self._obs_buffer), axis=0)
MaxOf(S) == CHOOSE x \in S : \A y \in S : y <= x

MaxFrame(buf) == [p \in 1 .. 2 |-> MaxOf({buf[i][p] : i \in 1 .. Len(buf)})]

\* lines 196-208
MaxSkipStep(w, a, script) ==
  LET r == SkipLoop([buf |-> w.buf, total |-> 0, done |-> FALSE, ops |-> <<>>],
                    a, script, 1)
  IN  [w   |-> [buf |-> r.buf],
       ret |-> StepRet(a, MaxFrame(r.buf), r.total, r.done),
       ops |-> r.ops]

\* lines 210-215
MaxSkipReset(w, o) ==
  [w   |-> [buf |-> <<o.ob>>],
   ret |-> ResetRet(o.ob),
   ops |-> <<ResetOp(o)>>]

MaxSkipStepCall ==
  /\ wn < MaxOps
  /\ \E a \in Actions : \E script \in Scripts(SkipOuts, Skip) :
       Commit(MaxSkipStep(wst, a, script))

MaxSkipResetCall ==
  /\ wn < MaxOps
  /\ \E o \in ResetOuts({0}) : Commit(MaxSkipReset(wst, o))

\* line 193: the buffer starts empty
MaxSkipInit == Wrapped([buf |-> <<>>])

MaxSkipNext == MaxSkipStepCall \/ MaxSkipResetCall

MaxSkipSpec == MaxSkipInit /\ [][MaxSkipNext]_vars

\* ---- FrameStack (lines 235-258)
K == 4          \* line 304: FrameStack(env, k=4)

\* line 240: deque([], maxlen=k); append drops the oldest of a full buffer
StackPush_grows(frames, ob) == Append(frames, ob)

StackPush(frames, ob) ==
  IF Len(frames) < K THEN Append(frames, ob) ELSE Append(Tail(frames), ob)

\* line 248: for _ in range(self.k): self.frames.append(ob)
RECURSIVE Fill(_, _, _)
Fill(frames, ob, n) ==
  IF n = 0 THEN frames ELSE Fill(StackPush(frames, ob), ob, n - 1)

\* line 258: np.concatenate(self.frames, axis=2); the frames have one
\* channel each, the result has the frames as the channels of every pixel
Concat(frames) == [p \in 1 .. 2 |-> [c \in 1 .. Len(frames) |-> frames[c][p]]]

\* lines 256-258: the value of a call that ends in self._observation()
Observed(frames, r) == IF Len(frames) = K THEN r ELSE Raised("AssertionError")

\* lines 245-249
StackReset(w, o) ==
  LET f == Fill(w.frames, o.ob, K)
  IN  [w   |-> [frames |-> f],
       ret |-> Observed(f, ResetRet(Concat(f))),
       ops |-> <<ResetOp(o)>>]

\* lines 251-254
StackStep(w, a, o) ==
  LET f == StackPush(w.frames, o.ob)
  IN  [w   |-> [frames |-> f],
       ret |-> Observed(f, StepRet(a, Concat(f), o.rew, o.done)),
       ops |-> <<StepOp(a, o)>>]

StackStepCall ==
  /\ wn < MaxOps
  /\ \E a \in Actions : \E o \in StepOuts({0}) : Commit(StackStep(wst, a, o))

StackResetCall ==
  /\ wn < MaxOps
  /\ \E o \in ResetOuts({0}) : Commit(StackReset(wst, o))

StackInit == Wrapped([frames |-> <<>>])

StackNext == StackStepCall \/ StackResetCall

StackSpec == StackInit /\ [][StackNext]_vars

\* ---- FrameSkipping (lines 260-288)
\* line 265: self.n_real_acts = self.env.action_space.n
NReal == Cardinality(Actions)

\* the action space the agent draws from: the native actions, then the
\* n_aux_acts auxiliary actions
SkipActions == 0 .. (NReal + NAux - 1)

\* line 267: self.skip = [2**i for i in range(1, n_aux_acts)]
SkipList == [j \in 1 .. (NAux - 1) |-> 2 ^ j]

\* line 268, 261: repeat_act=0
RepeatAct == 0

\* lines 280-284: the loop, from its i-th iteration on
RECURSIVE RepeatLoop(_, _, _, _)
RepeatLoop(acc, script, i, n) ==
  IF i > n
  THEN acc
  ELSE LET o == script[i]
           nxt == [ob    |-> o.ob,
                   total |-> acc.total + o.rew,
                   done  |-> o.done,
                   ops   |-> Append(acc.ops, StepOp(RepeatAct, o))]
       IN  IF o.done THEN nxt ELSE RepeatLoop(nxt, script, i + 1, n)

\* lines 271-273: a native action
NativeStep(w, a, o) ==
  [w   |-> w,
   ret |-> StepRet(a, o.ob, o.rew, o.done),
   ops |-> <<StepOp(a, o)>>]

\* lines 276-288: an auxiliary action whose index is in self.skip
AuxStep(w, a, script) ==
  LET n == w.skip[a - NReal + 1]
      r == RepeatLoop([ob |-> <<>>, total |-> 0, done |-> FALSE, ops |-> <<>>],
                      script, 1, n)
  IN  [w   |-> w,
       ret |-> StepRet(a, r.ob, r.total, r.done),
       ops |-> r.ops]

\* line 276: self.skip[action - self.n_real_acts] with the index past the
\* end of the list
AuxStepFails(w) ==
  [w   |-> w,
   ret |-> Raised("IndexError"),
   ops |-> <<>>]

\* lines 270-288
FrameSkipStepCall ==
  /\ wn < MaxOps
  /\ \E a \in SkipActions :
       IF a < NReal
       THEN \E o \in StepOuts({0}) : Commit(NativeStep(wst, a, o))
       ELSE IF a - NReal < Len(wst.skip)
            THEN \E script \in Scripts(StepOuts({0}), wst.skip[a - NReal + 1]) :
                   Commit(AuxStep(wst, a, script))
            ELSE Commit(AuxStepFails(wst))

\* gym.Wrapper.reset: FrameSkipping defines no _reset of its own
FrameSkipResetCall ==
  /\ wn < MaxOps
  /\ \E o \in ResetOuts({0}) :
       Commit([w |-> wst, ret |-> ResetRet(o.ob), ops |-> <<ResetOp(o)>>])

FrameSkipInit == Wrapped([skip |-> SkipList])

FrameSkipNext == FrameSkipStepCall \/ FrameSkipResetCall

FrameSkipSpec == FrameSkipInit /\ [][FrameSkipNext]_vars

\* ---- worker() around an EpisodicLifeEnv (lines 27-34, 152-186)
\* line 30: ob = env.reset() replaces the observation of the step
Then(r1, r2) ==
  [w   |-> r2.w,
   ret |-> [r1.ret EXCEPT !.ob = r2.ret.ob],
   ops |-> r1.ops \o r2.ops]

\* lines 27-31: the step command; env is the wrapper
LoopStepCall ==
  /\ wn < MaxOps
  /\ \E a \in Actions : \E o \in StepOuts(Lives) :
       LET r1 == LifeStep(wst, a, o)
       IN  IF r1.ret.done
           THEN \E r2 \in LifeResets(r1.w) : Commit(Then(r1, r2))
           ELSE Commit(r1)

\* lines 32-34: the reset command
LoopResetCall ==
  /\ wn < MaxOps
  /\ \E r \in LifeResets(wst) : Commit(r)

LifeLoopInit == Wrapped(NewLife)

LifeLoopNext == LoopStepCall \/ LoopResetCall

LifeLoopSpec == LifeLoopInit /\ [][LifeLoopNext]_vars

\* ---- FireResetEnv (lines 135-150)
FireAct == 1    \* line 144: self.env.step(1)
FollowAct == 2  \* line 147: self.env.step(2)

\* lines 145, 148: if done
ReReset_never(done) == FALSE

ReReset(done) == done

\* lines 145-146, 148-149: if done: self.env.reset(), whose observation is
\* dropped
ThenReset(o, r) == IF ReReset(o.done) THEN <<ResetOp(r)>> ELSE <<>>

\* lines 142-150; r0, r1, r2 are the answers of the resets (r1 and r2 are
\* asked for only after a done), o1 and o2 those of the two steps
FireReset(w, r0, o1, r1, o2, r2) ==
  [w   |-> w,
   ret |-> ResetRet(o2.ob),
   ops |-> <<ResetOp(r0), StepOp(FireAct, o1)>> \o ThenReset(o1, r1)
             \o <<StepOp(FollowAct, o2)>> \o ThenReset(o2, r2)]

\* the answer of a reset that is made only after a done
Asked(o) == IF o.done THEN ResetOuts({0}) ELSE {[ob |-> o.ob, lives |-> 0]}

FireResetCall ==
  /\ wn < MaxOps
  /\ \E r0 \in ResetOuts({0}) : \E o1, o2 \in StepOuts({0}) :
       \E r1 \in Asked(o1) : \E r2 \in Asked(o2) :
         Commit(FireReset(wst, r0, o1, r1, o2, r2))

\* gym.Wrapper.step: FireResetEnv defines no _step of its own
FireStepCall ==
  /\ wn < MaxOps
  /\ \E a \in Actions : \E o \in StepOuts({0}) :
       Commit([w |-> wst, ret |-> StepRet(a, o.ob, o.rew, o.done),
               ops |-> <<StepOp(a, o)>>])

\* lines 136-140: the wrapper keeps no field of its own
FireInit == Wrapped([class |-> "FireResetEnv"])

FireNext == FireResetCall \/ FireStepCall

FireSpec == FireInit /\ [][FireNext]_vars

\* ================================================================ claims
Last(q) == q[Len(q)]

\* worker k took a command off its pipe in this step
Consumed(k) == Len(c2w'[k]) < Len(c2w[k])

\* worker k put a result on its pipe in this step
Replied(k) == Len(w2c'[k]) > Len(w2c[k])

\* C1. Index stability: whenever step, reset or get_last_reward has
\* returned a batch, the batch has N elements and element k is what worker
\* k's own environment produced in this call, for actions[k] in the case of
\* step (its observation is the current one of environment k, its reward
\* and info are those of environment k for actions[k]).
IndexStability ==
  (pc = "idle" /\ ret.kind # "none") =>
    \A k \in W :
      CASE ret.kind = "step" ->
             /\ Len(ret.obs) = N
             /\ ret.obs[k + 1] = Obs(k, env[k])
             /\ ret.rews[k + 1] = Reward(k, actions[k + 1])
             /\ ret.infos[k + 1].src = k
             /\ ret.infos[k + 1].act = actions[k + 1]
             /\ ret.dones[k + 1] = (ret.obs[k + 1].t = 0)
        [] ret.kind = "reset" ->
             /\ Len(ret.obs) = N
             /\ ret.obs[k + 1] = Obs(k, env[k])
        [] ret.kind = "last_reward" ->
             /\ Len(ret.vals) = N
             /\ ret.vals[k + 1] = LastReward(k, env[k])

\* a step batch was returned for actions that differ between the first and
\* the last worker, on a call that was not the first
IndexStabilityWitness ==
  /\ pc = "idle" /\ ret.kind = "step"
  /\ ncalls >= 2
  /\ actions[1] # actions[N]
  /\ \E k \in W : ret.dones[k + 1]

\* C2. Auto-reset: whenever a worker answers a step command, the reward and
\* the info it sends are those of the step just made; if the step was done
\* the environment has been reset (once) before the reply and the reply
\* carries the observation of that reset; if not, the environment has only
\* been stepped and the reply carries the observation of the step.
AutoReset ==
  [][\A k \in W :
       (Consumed(k) /\ Head(c2w[k]).cmd = "step" /\ Replied(k)) =>
         LET m == Last(w2c'[k])
             a == Head(c2w[k]).data
             e1 == EnvStep(env[k])
         IN  /\ m.kind = "step"
             /\ m.rew = Reward(k, a)
             /\ m.info = Info(k, e1, a)
             /\ IF m.done
                  THEN /\ env'[k] = EnvReset(e1)
                       /\ m.ob = Obs(k, EnvReset(e1))
                  ELSE /\ env'[k] = e1
                       /\ m.ob = Obs(k, e1)]_vars

\* a reply to a done step is on the pipe: it carries the first observation
\* of the next episode and the info of the last step of the previous one
AutoResetWitness ==
  \E k \in W :
    /\ w2c[k] # <<>>
    /\ Head(w2c[k]).kind = "step"
    /\ Head(w2c[k]).done
    /\ Head(w2c[k]).ob.t = 0
    /\ Head(w2c[k]).ob.ep = Head(w2c[k]).info.ep + 1
    /\ Head(w2c[k]).info.t >= 2

\* C3. FIFO pairing (worker 0 under a direct client): the results the
\* worker has sent so far, in order, answer the first commands the client
\* sent, in order, one result per command, each of the kind of its command
\* (and a step result for the action of its step command); a worker
\* waiting for a command has answered every command it has taken.
Replies == gotLog \o w2c[0]

Answers(c, r) ==
  CASE c.cmd = "step" -> r.kind = "step" /\ r.info.act = c.data
    [] c.cmd = "reset" -> r.kind = "reset"
    [] c.cmd = "get_spaces" -> r.kind = "spaces"
    [] c.cmd = "last_reward" -> r.kind = "last_reward"
    [] OTHER -> FALSE

FifoPairing ==
  /\ Len(Replies) <= Len(sentLog)
  /\ \A j \in 1 .. Len(Replies) : Answers(sentLog[j], Replies[j])
  /\ wpc[0] = "loop" => Len(Replies) = Len(sentLog) - Len(c2w[0])
  /\ wpc[0] \in Terminated => Len(Replies) >= Len(sentLog) - Len(c2w[0]) - 1

\* step then get_spaces were sent back to back; both results are on the
\* pipe, the step result first
FifoPairingWitness ==
  /\ Len(sentLog) >= 2
  /\ sentLog[1].cmd = "step" /\ sentLog[2].cmd = "get_spaces"
  /\ gotLog = <<>>
  /\ Len(w2c[0]) = 2
  /\ w2c[0][1].kind = "step" /\ w2c[0][2].kind = "spaces"

\* C4. Close semantics: a close() entered on a constructed executor with no
\* call in progress returns; when it has returned, CLOSE has been sent to
\* every worker, once and in worker order, and every worker process has
\* terminated.
CloseSemantics ==
  /\ [](pc = "closed" =>
          /\ trace = [j \in 1 .. N |-> <<"send", j - 1>>]
          /\ \A k \in W : wpc[k] \in Terminated)
  /\ (call = "close") ~> (pc = "closed")

\* close() has returned after every worker left its loop on CLOSE, at
\* least one call after construction having been made
CloseSemanticsWitness ==
  /\ pc = "closed"
  /\ ncalls >= 1
  /\ \A k \in W : wpc[k] = "exited" /\ c2w[k] = <<>>

\* C5 as stated. Fan-out before fan-in: in a step, reset or get_last_reward
\* call, every receive comes after the sends to all N workers, and the
\* receives are from worker 0, 1, ... in that order.
FanCall == call \in {"step", "reset", "last_reward"}

FanOrder ==
  \A j \in 1 .. Len(trace) :
    trace[j][1] = "recv" =>
      /\ \A k \in W : \E i \in 1 .. (j - 1) : trace[i] = <<"send", k>>
      /\ trace[j][2] = Cardinality({i \in 1 .. (j - 1) : trace[i][1] = "recv"})

FanOutBeforeFanIn == FanCall => FanOrder

\* C5 as amended: the same, for reset, get_last_reward and every step call
\* that is given at least N actions.
FanOutBeforeFanInGivenN ==
  (FanCall /\ (call = "step" => Len(actions) >= N)) => FanOrder

\* a step call has sent N commands and then received N results
FanOutBeforeFanInWitness ==
  /\ call = "step" /\ pc = "ret"
  /\ Len(trace) = 2 * N
  /\ trace[N][1] = "send" /\ trace[N + 1] = <<"recv", 0>>

\* C6. No pipelining: no worker ever has more than one command that was
\* sent to it and not answered, so no pipe ever holds more than one
\* command; while the coordinator is sending a batch, the workers it has
\* not yet sent to have nothing outstanding and empty pipes; and between
\* calls nothing is outstanding at all.
NoPipelining ==
  /\ \A k \in W :
       /\ pending[k] <= 1
       /\ Len(c2w[k]) + Len(w2c[k]) <= pending[k]
  /\ pc = "send" =>
       \A k \in W : k >= idx => pending[k] = 0
  /\ pc = "idle" =>
       \A k \in W : pending[k] = 0

\* in the second call after construction, every worker holds or has
\* answered exactly one command and the coordinator has started receiving
NoPipeliningWitness ==
  /\ FanCall /\ pc = "recv"
  /\ ncalls >= 2
  /\ \A k \in W : pending[k] = 1
  /\ \E k \in W : c2w[k] # <<>>
  /\ \E k \in W : w2c[k] # <<>>

\* C7 as stated. Atomic construction: when construction has failed, every
\* worker process that was spawned has terminated.
AtomicConstruction ==
  (call = "ctor" /\ pc = "failed") =>
    \A k \in W : wpc[k] \in Terminated \cup {"unstarted"}

\* C8 as stated. Once the environment of a worker has turned out not to
\* expose the auxiliary value, the call that asked for it ends with an
\* error raised to its caller (stated for the behaviours in which no
\* worker fails for any other reason, where nothing but the missing value
\* can keep the call from ending).
MetadataErrorPropagates ==
  (\E k \in W : werr[k] = "KeyError") ~>
    \/ pc = "idle" /\ cerr # "none"
    \/ \E j \in W : werr[j] \notin {"none", "KeyError"}

\* C9. Unrecognized command (worker 0 under a direct client): a worker that
\* takes a command that is none of the five fails with NotImplementedError
\* in that step, sends nothing and leaves its environment alone; after
\* that it takes no command, sends nothing and leaves its environment
\* alone.
UnrecognizedIsFatal ==
  [][\A k \in W :
       /\ (Consumed(k) /\ Head(c2w[k]).cmd \notin KnownCmds) =>
            /\ wpc'[k] = "raised"
            /\ werr'[k] = "NotImplementedError"
            /\ ~Replied(k)
            /\ env'[k] = env[k]
       /\ werr[k] = "NotImplementedError" =>
            /\ wpc[k] = "raised" /\ wpc'[k] = "raised"
            /\ werr'[k] = werr[k]
            /\ ~Consumed(k)
            /\ ~Replied(k)
            /\ env'[k] = env[k]]_vars

\* the worker has failed on an unrecognized command after answering an
\* earlier one, and a later command stays on the pipe
UnrecognizedIsFatalWitness ==
  /\ werr[0] = "NotImplementedError"
  /\ c2w[0] # <<>>
  /\ Len(Replies) = 1
  /\ sentLog[2].cmd \notin KnownCmds

\* C10. Worker lifecycle (worker 0 under a direct client).  live is the
\* flag of the worker's state: the loop has not been left through the
\* break of the close branch.  It is cleared exactly when the worker takes
\* CLOSE and is never set again; a worker leaves its loop only by taking
\* CLOSE or by raising; a step, reset, get_spaces or last_reward that is
\* answered leaves the worker waiting in its loop; and once CLOSE has been
\* taken the worker takes no command, sends nothing and its environment
\* is neither stepped nor reset.
live(k) == wpc[k] # "exited"

WorkerLifecycle ==
  [][\A k \in W :
       /\ (live(k) /\ ~live(k)') <=>
            (Consumed(k) /\ Head(c2w[k]).cmd = "close")
       /\ ~live(k) => ~live(k)'
       /\ (wpc[k] = "loop" /\ wpc'[k] # "loop") =>
            \/ Consumed(k) /\ Head(c2w[k]).cmd = "close" /\ wpc'[k] = "exited"
            \/ wpc'[k] = "raised" /\ werr'[k] # "none"
       /\ (Consumed(k) /\ Replied(k)) =>
            /\ Head(c2w[k]).cmd \in KnownCmds \ {"close"}
            /\ wpc'[k] = "loop"
       /\ ~live(k) =>
            /\ ~Consumed(k)
            /\ ~Replied(k)
            /\ env'[k] = env[k]]_vars

\* the worker has answered a command, then taken CLOSE, and a command sent
\* after CLOSE stays on the pipe
WorkerLifecycleWitness ==
  /\ wpc[0] = "exited"
  /\ Len(Replies) >= 1
  /\ c2w[0] # <<>>
  /\ Head(c2w[0]).cmd \in {"step", "reset"}

\* C11. EpisodicLife step: every step() reports done exactly when the inner
\* step reported done or the life count fell from the recorded value to a
\* lower value that is still positive, and was_real_done is set exactly
\* when the inner step itself reported done.
EpisodicLifeStep ==
  [][(wret'.call = "step" /\ wn' = wn + 1) =>
       LET o == Last(ilog')
       IN  /\ Len(ilog') = 1 /\ o.op = "step" /\ o.a = wret'.a
           /\ wret'.done = (o.done \/ (o.lives < wst.lives /\ o.lives > 0))
           /\ wst'.was_real_done = o.done
           /\ wst'.lives = o.lives]_vars

\* a step lost a life (2 -> 1) without ending the game: done is reported
\* and no true end is recorded
EpisodicLifeStepWitness ==
  /\ wret.call = "step" /\ wret.done
  /\ Len(ilog) = 1 /\ ~ilog[1].done /\ ilog[1].lives = 1
  /\ ~wst.was_real_done
  /\ wn >= 2

\* the last n elements of a sequence (all of it when it is shorter)
LastN(q, n) == IF Len(q) <= n THEN q ELSE SubSeq(q, Len(q) - n + 1, Len(q))

RECURSIVE SumRew(_)
SumRew(ops) == IF ops = <<>> THEN 0 ELSE Head(ops).rew + SumRew(Tail(ops))

\* the observations the inner environment has produced, up to the end of
\* the call being made: the last one of the previous call, then this call's
RawObs ==
  (IF ilog = <<>> THEN <<>> ELSE <<Last(ilog).ob>>)
    \o [i \in 1 .. Len(ilog') |-> ilog'[i].ob]

\* C12. MaxAndSkip step: one step() applies the given action to the inner
\* environment Skip times, or j times when the j-th inner step is the first
\* to report done; it returns the sum of the rewards of those steps, the
\* done of the last of them, and the element-wise maximum of the last two
\* observations the inner environment has produced.
MaxAndSkipStep ==
  [][(wret'.call = "step" /\ wn' = wn + 1) =>
       LET n == Len(ilog')
           two == LastN(RawObs, 2)
       IN  /\ n \in 1 .. Skip
           /\ \A i \in 1 .. n : ilog'[i].op = "step" /\ ilog'[i].a = wret'.a
           /\ \A i \in 1 .. (n - 1) : ~ilog'[i].done
           /\ n < Skip => ilog'[n].done
           /\ wret'.rew = SumRew(ilog')
           /\ wret'.done = ilog'[n].done
           /\ \A p \in 1 .. 2 :
                /\ \A i \in 1 .. Len(two) : wret'.ob[p] >= two[i][p]
                /\ \E i \in 1 .. Len(two) : wret'.ob[p] = two[i][p]]_vars

\* four inner steps without done, rewards 1, 2, 1, 2, the 3rd and the 4th
\* observation differing in both pixels: the step returns reward 6 and the
\* frame that is their maximum
MaxAndSkipStepWitness ==
  /\ wret.call = "step" /\ ~wret.done
  /\ Len(ilog) = Skip
  /\ ilog[1].rew = 1 /\ ilog[2].rew = 2
  /\ ilog[3].ob = <<0, 1>> /\ ilog[4].ob = <<1, 0>>
  /\ wret.rew = 6
  /\ wret.ob = <<1, 1>>

\* the observation that stacks the frames f1 .. fK, oldest first
Stacked(frames) ==
  [p \in 1 .. 2 |-> [c \in 1 .. K |-> frames[c][p]]]

\* C13. FrameStack reset: whatever preceded it, reset() leaves exactly K
\* copies of the reset observation in the frame buffer and returns that
\* observation K times along the stacking axis; every step() after a call
\* that returned leaves K frames, the new one last and the oldest dropped,
\* and returns their stack.
FrameStackReset ==
  [][(wn' = wn + 1) =>
       LET o == Last(ilog')
       IN  /\ o.op = "reset" =>
                /\ wret'.call = "reset"
                /\ wst'.frames = [c \in 1 .. K |-> o.ob]
                /\ wret'.ob = Stacked([c \in 1 .. K |-> o.ob])
           /\ (o.op = "step" /\ wret.call \in {"reset", "step"}) =>
                /\ wret'.call = "step"
                /\ Len(wst'.frames) = K
                /\ wst'.frames = Append(Tail(wst.frames), o.ob)
                /\ wret'.ob = Stacked(wst'.frames)]_vars

\* the third call is a step after a reset; its frame differs from the three
\* older frames, which are copies of one observation: the new frame is last
FrameStackResetWitness ==
  /\ wn = 3
  /\ wret.call = "step"
  /\ wst.frames = <<<<0, 1>>, <<0, 1>>, <<0, 1>>, <<1, 0>>>>
  /\ wret.ob = <<<<0, 0, 0, 1>>, <<1, 1, 1, 0>>>>

\* the index i of the auxiliary action a
AuxIndexOf(a) == a - NReal

\* C14. FrameSkipping: a step with a native action is one inner step with
\* that action; a step with the auxiliary action NReal + i, for every i in
\* 0 .. NAux - 1, returns, after 2^i inner steps with the filler action
\* (fewer only when one of them reports done), the sum of their rewards.
AuxRepeatCount ==
  [][(wn' = wn + 1 /\ (ilog' = <<>> \/ Last(ilog').op = "step")) =>
       /\ wret'.call = "step"
       /\ LET n == Len(ilog')
              i == AuxIndexOf(wret'.a)
          IN  IF wret'.a < NReal
              THEN n = 1 /\ ilog'[1].a = wret'.a
              ELSE /\ i \in 0 .. (NAux - 1)
                   /\ n \in 1 .. (2 ^ i)
                   /\ \A j \in 1 .. n : ilog'[j].a = RepeatAct
                   /\ \A j \in 1 .. (n - 1) : ~ilog'[j].done
                   /\ n < 2 ^ i => ilog'[n].done
                   /\ wret'.rew = SumRew(ilog')]_vars

\* the replies collected by the last step or reset call carry observations
\* of more than one shape
MixedShapes ==
  \E a, b \in 1 .. Len(results) : results[a].ob.shape # results[b].ob.shape

\* a step or reset call has ended and no other call has been made since
EndedObsCall ==
  /\ call = "none" /\ pc = "idle"
  /\ results # <<>>
  /\ results[1].kind \in {"step", "reset"}

\* C15. Shape mismatch: a step or reset call whose N replies carry
\* observations of different shapes ends by raising the shape error
\* (numpy's ValueError) and hands no batch to the caller; the error is
\* raised after all N replies have been received, so when it reaches the
\* caller every channel is empty and every worker waits for a command.
ShapeMismatch ==
  (EndedObsCall /\ MixedShapes) =>
    /\ cerr = "ValueError"
    /\ ret = NoValue
    /\ Len(results) = N
    /\ \A k \in W :
         /\ c2w[k] = <<>> /\ w2c[k] = <<>>
         /\ pending[k] = 0
         /\ wpc[k] = "loop"

\* the two workers built environments of different shapes and a step call
\* has ended with the error
ShapeMismatchWitness ==
  /\ call = "none" /\ pc = "idle"
  /\ cerr = "ValueError"
  /\ env[0].shape # env[1].shape
  /\ Len(results) = N
  /\ results[1].kind = "step"
  /\ \A k \in W : wpc[k] = "loop" /\ c2w[k] = <<>> /\ w2c[k] = <<>>

\* C16. EpisodicLife reset: reset() resets the underlying environment when
\* the last step applied to it reported done or none has been applied yet,
\* and otherwise applies exactly one step with action 0 and no reset; when
\* it returns, the recorded life count is that of the underlying
\* environment.
EpisodicLifeReset ==
  [][(wn' = wn + 1 /\ wret'.call = "reset") =>
       /\ Len(ilog') = 1
       /\ IF inner.ended
          THEN ilog'[1].op = "reset"
          ELSE ilog'[1].op = "step" /\ ilog'[1].a = 0
       /\ wst'.lives = inner'.lives]_vars

\* C17. FireReset: reset() applies to the inner environment, in this order,
\* a reset, a step with action 1, a reset if that step reported done, a step
\* with action 2, a reset if that step reported done, and nothing else.
FireResetOrder ==
  [][(wn' = wn + 1 /\ wret'.call = "reset") =>
       LET L == ilog'
           second == IF L[2].done THEN 4 ELSE 3
       IN  /\ Len(L) >= 3
           /\ L[1].op = "reset"
           /\ L[2].op = "step" /\ L[2].a = 1
           /\ L[2].done => L[3].op = "reset"
           /\ Len(L) >= second
           /\ L[second].op = "step" /\ L[second].a = 2
           /\ IF L[second].done
              THEN Len(L) = second + 1 /\ L[second + 1].op = "reset"
              ELSE Len(L) = second]_vars

\* both steps of a reset() reported done: reset, fire, reset, follow-up, reset
FireResetOrderWitness ==
  /\ wret.call = "reset"
  /\ Len(ilog) = 5
  /\ ilog[2].a = 1 /\ ilog[2].done /\ ilog[3].op = "reset"
  /\ ilog[4].a = 2 /\ ilog[4].done /\ ilog[5].op = "reset"

\* no environment operation has raised in any worker
NoEnvFailure == \A k \in W : werr[k] = "none"

\* a step, reset or get_last_reward call is in progress, and it is not a
\* step call that was given fewer than N actions
FullCall == FanCall /\ (call = "step" => Len(actions) = N)

\* the coordinator is blocked in recv() on a worker that is itself blocked
\* in recv() with nothing sent to it
MutualWait ==
  /\ pc = "recv"
  /\ w2c[RecvFrom(idx)] = <<>>
  /\ c2w[RecvFrom(idx)] = <<>>
  /\ wpc[RecvFrom(idx)] = "loop"

\* C18. Deadlock freedom: as long as no environment operation raises, every
\* step call given N actions, every reset call and every get_last_reward
\* call ends; when it has ended every channel is empty and every worker is
\* waiting for its next command; and during such a call the coordinator and
\* a worker never wait for each other.
DeadlockFreedom ==
  /\ FullCall ~> (pc = "idle" \/ ~NoEnvFailure)
  /\ [][(FullCall /\ pc' = "idle" /\ NoEnvFailure') =>
          \A k \in W :
            /\ c2w'[k] = <<>> /\ w2c'[k] = <<>>
            /\ wpc'[k] = "loop"]_vars
  /\ []((FullCall /\ NoEnvFailure) => ~MutualWait)

\* a get_last_reward call has returned its batch of N values, the workers
\* are back in their loops and the pipes are empty
DeadlockFreedomWitness ==
  /\ call = "none" /\ pc = "idle"
  /\ ret.kind = "last_reward"
  /\ Len(results) = N
  /\ NoEnvFailure
  /\ \A k \in W : wpc[k] = "loop" /\ c2w[k] = <<>> /\ w2c[k] = <<>>

\* C19. No step on a finished episode: in a worker loop around an
\* EpisodicLifeEnv the underlying environment is never stepped while the
\* last operation applied to it is a step that reported done; what follows
\* such a step, also the no-op step inside reset(), is a reset.
NoStepOnFinished == ~inner.stale

\* C20. FireReset returns a current observation: the observation reset()
\* returns is the one of the last operation, step or reset, it applied to
\* the inner environment.
FireResetCurrent ==
  (wret.call = "reset") => wret.ob = Last(ilog).ob

====
